---- MODULE Spec2Model ----
(***************************************************************************)
(* Ledmacher backend (backend/backend.py): the firmware build request, the *)
(* metadata query and the binary download, over the ./build directory.     *)
(*                                                                         *)
(* The store is the ./build directory tree.  The request handlers are the  *)
(* three bottle routes.  The external command ./buildme.sh is a separate   *)
(* process that owns the creation of ./build/<hash> and of ledmacher.bin.  *)
(***************************************************************************)
EXTENDS Integers, Sequences, FiniteSets, TLC

(* ------------------------------ bounds --------------------------------- *)

\* total number of POST /firmware requests accepted in a behaviour
MaxBuilds == 2
\* file change times (seconds since the epoch) run from 0 to MaxTime
MaxTime == 1
\* longest `colors` list of the request bodies the rendering is checked on
MaxColors == 2

(* ------------------------------ universe ------------------------------- *)

\* request slots: at most two build requests are in flight at a time
Reqs == {"r1", "r2"}

\* identifiers ./buildme.sh derives for a build (directory names it creates)
Ids == {<<"a">>, <<"b">>}

\* what the command can leave on its standard output for identifier id
Outputs(id) == {<<>>, id, id \o <<"\n">>}

AllOutputs == UNION {Outputs(id) : id \in Ids}

\* every path component ./build/<name> a handler can form
Names == Ids \cup {id \o <<"\n">> : id \in Ids}

\* exit statuses of the command: success and failure
ExitCodes == {0, 1}


CfgA ==
    [num_leds |-> 3, wait_color |-> 100, wait_gradient |-> 200,
     gradient_steps |-> 5, colors |-> <<[r |-> 255, g |-> 0, b |-> 0]>>]

CfgB ==
    [num_leds |-> 1, wait_color |-> 100, wait_gradient |-> 200,
     gradient_steps |-> 5,
     colors |-> <<[r |-> 0, g |-> 0, b |-> 255], [r |-> 1, g |-> 2, b |-> 3]>>]

\* request bodies (bottle.request.json) submitted by clients
Configs == {CfgA, CfgB}

\* color triples a client can submit
Colors == {[r |-> 1, g |-> 2, b |-> 3], [r |-> 255, g |-> 0, b |-> 0]}

\* `colors` lists of up to MaxColors triples, the empty list included
ColorSeqs == UNION {[1..n -> Colors] : n \in 0..MaxColors}

\* request bodies the rendering is checked on
RenderConfigs ==
    {[num_leds |-> n, wait_color |-> 100, wait_gradient |-> 200,
      gradient_steps |-> 5, colors |-> cs] : n \in {1, 3}, cs \in ColorSeqs}

\* the value of a variable that holds no config yet
NoConfig ==
    [num_leds |-> 0, wait_color |-> 0, wait_gradient |-> 0,
     gradient_steps |-> 0, colors |-> <<>>]

\* ledmacher.bin as ./buildme.sh compiles it from the rendered config
Compile(c) == IF c = CfgA THEN <<7>> ELSE <<1, 2>>

(* ------------------------------ text ----------------------------------- *)

\* the characters str.strip() removes
Whitespace == {" ", "\n", "\t"}

RECURSIVE lstrip(_)
lstrip(s) ==
    IF s # <<>> /\ Head(s) \in Whitespace THEN lstrip(Tail(s)) ELSE s

RECURSIVE rstrip(_)
rstrip(s) ==
    IF s # <<>> /\ s[Len(s)] \in Whitespace
    THEN rstrip(SubSeq(s, 1, Len(s) - 1)) ELSE s

\* s.strip(): s without its leading and trailing whitespace
strip(s) == lstrip(rstrip(s))

(* ------------------------------ rendering ------------------------------ *)

DefineLine(name, value) == [kind |-> "define", name |-> name, val |-> <<value>>]

\* ColorLine with the g and b arguments of the format string exchanged
ColorLineSwapped(c) == [kind |-> "color", name |-> "", val |-> <<c.r, c.b, c.g>>]

\* line 110: one initializer line "{ .r = R, .g = G, .b = B }," per color

ColorLine(c) == [kind |-> "color", name |-> "", val |-> <<c.r, c.g, c.b>>]

RECURSIVE ColorLines(_)
ColorLines(cs) ==
    IF cs = <<>> THEN <<>>
    ELSE <<ColorLine(Head(cs))>> \o ColorLines(Tail(cs))

\* out_data: the text piped to ./buildme.sh, one element per line
Render(c) ==
    << DefineLine("NUM_LEDS", c.num_leds),
       DefineLine("WAIT_COLOR_MS", c.wait_color),
       DefineLine("WAIT_GRADIENT_MS", c.wait_gradient),
       DefineLine("GRADIENT_STEPS", c.gradient_steps),
       [kind |-> "open", name |-> "struct cRGB colors[] = {", val |-> <<>>] >>
    \o ColorLines(c.colors)
    \o << [kind |-> "close", name |-> "};", val |-> <<>>] >>

(* ------------------------------ JSON ----------------------------------- *)

\* tokens of a JSON text: punctuation, string, number
P(s) == <<"p", s, 0>>
K(s) == <<"s", s, 0>>
N(n) == <<"n", "", n>>

json_dump_color(c) ==
    << P("{"), K("r"), N(c.r), K("g"), N(c.g), K("b"), N(c.b), P("}") >>

RECURSIVE json_dump_colors(_)
json_dump_colors(cs) ==
    IF cs = <<>> THEN <<>>
    ELSE json_dump_color(Head(cs)) \o json_dump_colors(Tail(cs))

\* json.dump(json_data, outfile): the text written to config.json
json_dump(c) ==
    << P("{"),
       K("num_leds"), N(c.num_leds),
       K("wait_color"), N(c.wait_color),
       K("wait_gradient"), N(c.wait_gradient),
       K("gradient_steps"), N(c.gradient_steps),
       K("colors"), P("[") >>
    \o json_dump_colors(c.colors)
    \o << P("]"), P("}") >>

ColorTokens == 8
HeadTokens == 11

json_load_color(t, i) ==
    [r |-> t[i + 2][3], g |-> t[i + 4][3], b |-> t[i + 6][3]]

\* json.load(json_file): ok = FALSE stands for json.JSONDecodeError
json_load(t) ==
    IF Len(t) < HeadTokens + 2 \/ t[1] # P("{") \/ t[Len(t)] # P("}")
    THEN [ok |-> FALSE, value |-> NoConfig]
    ELSE LET n == (Len(t) - HeadTokens - 2) \div ColorTokens
         IN [ok |-> TRUE,
             value |->
                [num_leds |-> t[3][3], wait_color |-> t[5][3],
                 wait_gradient |-> t[7][3], gradient_steps |-> t[9][3],
                 colors |->
                    [k \in 1..n |->
                        json_load_color(t, HeadTokens + 1 + (k - 1) * ColorTokens)]]]

(* ------------------------------ hashing -------------------------------- *)

DigestMod == 251

RECURSIVE sha1(_)
\* hashlib.sha1(bytes).hexdigest(), abstracted to a small digest of the bytes
sha1(bytes) ==
    IF bytes = <<>> THEN 17
    ELSE (31 * sha1(Tail(bytes)) + Head(bytes) + Len(bytes)) % DigestMod

(* ------------------------------ the store ------------------------------ *)

NoFile == [exists |-> FALSE, data |-> <<>>, ctime |-> 0]

EmptyDir == [dir |-> TRUE, config |-> NoFile, bin |-> NoFile]

NoDir == [dir |-> FALSE, config |-> NoFile, bin |-> NoFile]

VARIABLES
    fs,             \* ./build: name -> [dir, config (config.json), bin (ledmacher.bin)]
    pc,             \* position of each build request in build_firmware
    json_data,      \* build_firmware: json_data
    out_data,       \* build_firmware: out_data
    firmware_hash,  \* build_firmware: firmware_hash
    returncode,     \* build_firmware: returncode
    response,       \* build_firmware: the HTTP response of the request
    persisted,      \* build_firmware: whether the request wrote config.json
    proc,           \* the ./buildme.sh process spawned by each request
    query,          \* the last retrieval request and its response
    nbuilds         \* number of build requests accepted so far

vars ==
    <<fs, pc, json_data, out_data, firmware_hash, returncode,
      response, persisted, proc, query, nbuilds>>

NoProc == [state |-> "none", id |-> <<>>]

NoResponse == [status |-> 0, hash |-> <<>>, msg |-> ""]

NoQuery ==
    [op |-> "none", name |-> <<>>, status |-> 0, date |-> 0, size |-> 0,
     checksum |-> 0, config |-> NoConfig, body |-> <<>>]

\* isdir that finds every directory: the test of line 130 left out
isdir_always(store, name) == TRUE

\* os.path.isdir('./build/<name>')
isdir(store, name) == store[name].dir

\* os.path.isfile('./build/<name>/config.json')
isfile_config(store, name) == store[name].dir /\ store[name].config.exists

\* os.path.isfile('./build/<name>/ledmacher.bin')
isfile_bin(store, name) == store[name].dir /\ store[name].bin.exists

\* build_dir with the hash left out of the path: every request writes into
\* one and the same directory
build_dir_fixed(h) == <<"a">>

\* build_dir: the directory a build request writes config.json into
build_dir(h) == h

Init ==
    /\ fs = [n \in Names |-> NoDir]
    /\ pc = [r \in Reqs |-> "Idle"]
    /\ json_data = [r \in Reqs |-> NoConfig]
    /\ out_data = [r \in Reqs |-> <<>>]
    /\ firmware_hash = [r \in Reqs |-> <<>>]
    /\ returncode = [r \in Reqs |-> 0]
    /\ response = [r \in Reqs |-> NoResponse]
    /\ persisted = [r \in Reqs |-> FALSE]
    /\ proc = [r \in Reqs |-> NoProc]
    /\ query = NoQuery
    /\ nbuilds = 0

(* --------------------- POST /firmware: build_firmware ------------------ *)

\* lines 91-111: take the request body and render the config header text
Receive(r, c) ==
    /\ pc[r] \in {"Idle", "Responded"}
    /\ nbuilds < MaxBuilds
    /\ nbuilds' = nbuilds + 1
    /\ json_data' = [json_data EXCEPT ![r] = c]
    /\ out_data' = [out_data EXCEPT ![r] = Render(c)]
    /\ firmware_hash' = [firmware_hash EXCEPT ![r] = <<>>]
    /\ returncode' = [returncode EXCEPT ![r] = 0]
    /\ response' = [response EXCEPT ![r] = NoResponse]
    /\ persisted' = [persisted EXCEPT ![r] = FALSE]
    /\ proc' = [proc EXCEPT ![r] = NoProc]
    /\ pc' = [pc EXCEPT ![r] = "Rendered"]
    /\ UNCHANGED <<fs, query>>

\* line 114: spawn ./buildme.sh; the process settles on the identifier of
\* this build
Popen(r) ==
    /\ pc[r] = "Rendered"
    /\ \E id \in Ids :
          proc' = [proc EXCEPT ![r] = [state |-> "running", id |-> id]]
    /\ pc' = [pc EXCEPT ![r] = "Invoked"]
    /\ UNCHANGED <<persisted, fs, json_data, out_data, firmware_hash, returncode,
                   response, query, nbuilds>>

\* bottle.abort(500, text)
abort500(text) == [status |-> 500, hash |-> <<>>, msg |-> text]

\* lines 122-125: an empty hash aborts the request
NoHash(hash) == hash = <<>>

\* Communicate without the abort of lines 122-125: an empty hash is handled
\* like a hash that names no directory
CommunicateNoAbort(r, out, rc) ==
    /\ pc[r] = "Invoked"
    /\ proc[r].state = "running"
    /\ out \in Outputs(proc[r].id)
    /\ proc' = [proc EXCEPT ![r].state = "exited"]
    /\ firmware_hash' = [firmware_hash EXCEPT ![r] = out]
    /\ returncode' = [returncode EXCEPT ![r] = rc]
    /\ response' = response
    /\ pc' = [pc EXCEPT ![r] =
                IF NoHash(out) THEN "DirMissing"
                ELSE IF isdir(fs, build_dir(out))
                THEN "DirFound" ELSE "DirMissing"]
    /\ UNCHANGED <<persisted, fs, json_data, out_data, query, nbuilds>>

\* lines 115-130: communicate() returns when the process has closed its
\* output and exited (out is what it wrote, rc its exit status); an empty
\* hash aborts, else the handler looks for the build directory
Communicate(r, out, rc) ==
    /\ pc[r] = "Invoked"
    /\ proc[r].state = "running"
    /\ out \in Outputs(proc[r].id)
    /\ proc' = [proc EXCEPT ![r].state = "exited"]
    /\ firmware_hash' = [firmware_hash EXCEPT ![r] = out]
    /\ returncode' = [returncode EXCEPT ![r] = rc]
    /\ IF NoHash(out)
       THEN /\ response' = [response EXCEPT ![r] = abort500("Yeah, this didn't work")]
            /\ pc' = [pc EXCEPT ![r] = "Responded"]
       ELSE /\ response' = response
            /\ pc' = [pc EXCEPT ![r] =
                        IF isdir(fs, build_dir(out))
                        THEN "DirFound" ELSE "DirMissing"]
    /\ UNCHANGED <<persisted, fs, json_data, out_data, query, nbuilds>>

\* the change times a file written now can get: time does not run backwards
Times(file) == {t \in 0..MaxTime : file.exists => t >= file.ctime}

\* line 131: open(json_file, 'w') creates or truncates config.json
OpenConfig(r, t) ==
    /\ pc[r] = "DirFound"
    /\ t \in Times(fs[build_dir(firmware_hash[r])].config)
    /\ fs' = [fs EXCEPT ![build_dir(firmware_hash[r])].config =
                [exists |-> TRUE, data |-> <<>>, ctime |-> t]]
    /\ pc' = [pc EXCEPT ![r] = "Opened"]
    /\ UNCHANGED <<persisted, json_data, out_data, firmware_hash, returncode,
                   response, proc, query, nbuilds>>

\* line 132 and the end of the with block: the serialized request body
\* reaches the file when it is closed
DumpConfig(r, t) ==
    /\ pc[r] = "Opened"
    /\ t \in Times(fs[build_dir(firmware_hash[r])].config)
    /\ fs' = [fs EXCEPT ![build_dir(firmware_hash[r])].config =
                [exists |-> TRUE, data |-> json_dump(json_data[r]),
                 ctime |-> t]]
    /\ pc' = [pc EXCEPT ![r] = "Persisted"]
    /\ persisted' = [persisted EXCEPT ![r] = TRUE]
    /\ UNCHANGED <<json_data, out_data, firmware_hash, returncode,
                   response, proc, query, nbuilds>>

\* BuildResult without the test of the exit status
BuildResultIgnoresStatus(hash, rc) == [status |-> 200, hash |-> hash, msg |-> ""]

\* BuildResult that returns the hash stripped of surrounding whitespace
BuildResultStripped(hash, rc) ==
    IF rc = 0
    THEN [status |-> 200, hash |-> strip(hash), msg |-> ""]
    ELSE abort500("Build failed")

\* lines 134-139: the response of a build whose hash is not empty
BuildResult(hash, rc) ==
    IF rc = 0
    THEN [status |-> 200, hash |-> hash, msg |-> ""]
    ELSE abort500("Build failed")

\* Return that treats a missing build directory as a failed build
ReturnNeedsDir(r) ==
    /\ pc[r] \in {"Persisted", "DirMissing"}
    /\ response' = [response EXCEPT ![r] =
                      IF pc[r] = "DirMissing" THEN abort500("Build failed")
                      ELSE BuildResult(firmware_hash[r], returncode[r])]
    /\ pc' = [pc EXCEPT ![r] = "Responded"]
    /\ UNCHANGED <<persisted, fs, json_data, out_data, firmware_hash, returncode,
                   proc, query, nbuilds>>

\* Return that answers only after the metadata write: a request that found
\* no build directory is never answered
ReturnOnlyPersisted(r) ==
    /\ pc[r] = "Persisted"
    /\ response' = [response EXCEPT ![r] =
                      BuildResult(firmware_hash[r], returncode[r])]
    /\ pc' = [pc EXCEPT ![r] = "Responded"]
    /\ UNCHANGED <<persisted, fs, json_data, out_data, firmware_hash, returncode,
                   proc, query, nbuilds>>

\* Return that does not wait for communicate(): the handler answers while
\* the process is still running
ReturnEarly(r) ==
    /\ pc[r] \in {"Persisted", "DirMissing", "Invoked"}
    /\ response' = [response EXCEPT ![r] =
                      BuildResult(firmware_hash[r], returncode[r])]
    /\ pc' = [pc EXCEPT ![r] = "Responded"]
    /\ UNCHANGED <<persisted, fs, json_data, out_data, firmware_hash, returncode,
                   proc, query, nbuilds>>

\* lines 134-139: the handler returns its response

Return(r) ==
    /\ pc[r] \in {"Persisted", "DirMissing"}
    /\ response' = [response EXCEPT ![r] =
                      BuildResult(firmware_hash[r], returncode[r])]
    /\ pc' = [pc EXCEPT ![r] = "Responded"]
    /\ UNCHANGED <<persisted, fs, json_data, out_data, firmware_hash, returncode,
                   proc, query, nbuilds>>

(* ------------------------- ./buildme.sh -------------------------------- *)

Spawned(r) == proc[r].state \in {"running", "exited"}

\* the command creates the directory named after its identifier
ExtMkdir(r) ==
    /\ Spawned(r)
    /\ ~fs[proc[r].id].dir
    /\ fs' = [fs EXCEPT ![proc[r].id] = EmptyDir]
    /\ UNCHANGED <<persisted, pc, json_data, out_data, firmware_hash, returncode,
                   response, proc, query, nbuilds>>

\* the command places ledmacher.bin in its directory
ExtWriteBin(r) ==
    /\ Spawned(r)
    /\ fs[proc[r].id].dir
    /\ ~(fs[proc[r].id].bin.exists /\ fs[proc[r].id].bin.data = Compile(json_data[r]))
    /\ fs' = [fs EXCEPT ![proc[r].id].bin =
                [exists |-> TRUE, data |-> Compile(json_data[r]), ctime |-> 0]]
    /\ UNCHANGED <<persisted, pc, json_data, out_data, firmware_hash, returncode,
                   response, proc, query, nbuilds>>

(* ------------- GET /firmware/<hash>: get_firmware_info ------------------ *)

NotFound(op, name) == [NoQuery EXCEPT !.op = op, !.name = name, !.status = 404]

ServerError(op, name) == [NoQuery EXCEPT !.op = op, !.name = name, !.status = 500]

\* firmware_file read only up to its first byte
firmware_file_head(store, name) ==
    [store[name].bin EXCEPT
        !.data = IF @ = <<>> THEN <<>> ELSE <<Head(@)>>]

\* the file whose size and checksum the metadata response reports
firmware_file(store, name) == store[name].bin

\* GetInfo without the os.path.isfile(config_file) test: opening a missing
\* file raises
GetInfoUnchecked(store, name) ==
    LET config_data == json_load(store[name].config.data)
    IN IF ~config_data.ok \/ ~isfile_bin(store, name)
       THEN ServerError("info", name)
       ELSE [op |-> "info", name |-> name, status |-> 200,
             date |-> store[name].config.ctime,
             size |-> Len(store[name].bin.data),
             checksum |-> sha1(store[name].bin.data),
             config |-> config_data.value,
             body |-> <<>>]

\* lines 154-173; an exception escaping the handler is a 500 response
GetInfo(store, name) ==
    IF ~isfile_config(store, name) THEN NotFound("info", name)
    ELSE LET config_data == json_load(store[name].config.data)
         IN IF ~config_data.ok THEN ServerError("info", name)
            ELSE IF ~firmware_file(store, name).exists
            THEN ServerError("info", name)
            ELSE [op |-> "info", name |-> name, status |-> 200,
                  date |-> store[name].config.ctime,
                  size |-> Len(firmware_file(store, name).data),
                  checksum |-> sha1(firmware_file(store, name).data),
                  config |-> config_data.value,
                  body |-> <<>>]

\* GetFirmwareInfo that opens config.json for update and so changes its
\* change time
GetFirmwareInfoTouch(name) ==
    /\ query' = GetInfo(fs, name)
    /\ fs' = IF isfile_config(fs, name)
             THEN [fs EXCEPT ![name].config.ctime = MaxTime]
             ELSE fs
    /\ UNCHANGED <<persisted, pc, json_data, out_data, firmware_hash,
                   returncode, response, proc, nbuilds>>

GetFirmwareInfo(name) ==
    /\ query' = GetInfo(fs, name)
    /\ UNCHANGED <<persisted, fs, pc, json_data, out_data, firmware_hash,
                   returncode, response, proc, nbuilds>>

(* ----------- GET /firmware/<hash>/bin: download_firmware ---------------- *)

\* Download that also asks for config.json, as get_firmware_info does
DownloadNeedsConfig(store, name) ==
    IF isfile_bin(store, name) /\ isfile_config(store, name)
    THEN [NoQuery EXCEPT !.op = "bin", !.name = name, !.status = 200,
                         !.body = store[name].bin.data]
    ELSE NotFound("bin", name)

\* lines 187-198
Download(store, name) ==
    IF isfile_bin(store, name)
    THEN [NoQuery EXCEPT !.op = "bin", !.name = name, !.status = 200,
                         !.body = store[name].bin.data]
    ELSE NotFound("bin", name)

DownloadFirmware(name) ==
    /\ query' = Download(fs, name)
    /\ UNCHANGED <<persisted, fs, pc, json_data, out_data, firmware_hash,
                   returncode, response, proc, nbuilds>>

\* one step of build request r, or of the command it spawned
BuildStep(r) ==
    \/ \E c \in Configs : Receive(r, c)
    \/ Popen(r)
    \/ \E out \in AllOutputs, rc \in ExitCodes : Communicate(r, out, rc)
    \/ \E t \in 0..MaxTime : OpenConfig(r, t)
    \/ \E t \in 0..MaxTime : DumpConfig(r, t)
    \/ Return(r)
    \/ ExtMkdir(r)
    \/ ExtWriteBin(r)

\* build requests handled concurrently (a threaded WSGI container running
\* `application`, line 204), each with its own ./buildme.sh process
Next == \E r \in Reqs : BuildStep(r)

Spec == Init /\ [][Next]_vars

\* the steps the thread handling request r takes by itself: lines 114 and
\* 127-139 neither block nor wait for another request
HandlerStep(r) ==
    \/ Popen(r)
    \/ \E t \in 0..MaxTime : OpenConfig(r, t)
    \/ \E t \in 0..MaxTime : DumpConfig(r, t)
    \/ Return(r)

\* every handler thread keeps being scheduled; nothing is assumed about
\* when, or whether, a ./buildme.sh process exits (communicate(), line 115,
\* has no timeout), about its file operations, or about requests arriving
SpecFair == Spec /\ \A r \in Reqs : WF_vars(HandlerStep(r))

\* build requests up to the rendering of their config text (lines 91-111),
\* over the request bodies of RenderConfigs
NextRender == \E r \in Reqs, c \in RenderConfigs : Receive(r, c)

SpecRender == Init /\ [][NextRender]_vars

\* the request slot of the deployment that builds one firmware at a time
OneReq == {"r1"}

\* retrieval requests served while one build request at a time is handled
NextRetrieval ==
    \/ \E r \in OneReq : BuildStep(r)
    \/ \E name \in Names : GetFirmwareInfo(name)
    \/ \E name \in Names : DownloadFirmware(name)

SpecRetrieval == Init /\ [][NextRetrieval]_vars

TypeOK ==
    /\ nbuilds \in 0..MaxBuilds
    /\ \A r \in Reqs :
          pc[r] \in {"Idle", "Rendered", "Invoked", "DirFound",
                     "DirMissing", "Opened", "Persisted", "Responded"}

(* ------------------------------ properties ----------------------------- *)

\* the store is well formed: files live in directories, which only the
\* command creates, under the identifiers it derives
FsWellFormed ==
    \A n \in Names :
        /\ (fs[n].config.exists \/ fs[n].bin.exists) => fs[n].dir
        /\ fs[n].dir => n \in Ids

\* a metadata query is served in this step
InfoServed == query' # query /\ query'.op = "info"

\* a retrieval request (metadata or binary) is served in this step
QueryServed == query' # query

\* C1: round trip: a metadata query for h served once a build request with
\* config C has responded with identifier h returns the metadata response
\* with config = C
C1RoundTrip ==
    [][InfoServed =>
          \A r \in Reqs :
              (pc[r] = "Responded" /\ response[r].status = 200
                 /\ response[r].hash = query'.name)
              => (query'.status = 200 /\ query'.config = json_data[r])]_vars

\* C2: a build request whose command exited with a non-zero status responds
\* with a server error (500) and no identifier, whatever the command wrote
C2NonZeroExitIs500 ==
    \A r \in Reqs :
        (pc[r] = "Responded" /\ returncode[r] # 0)
        => (response[r].status = 500 /\ response[r].hash = <<>>)

C2Witness ==
    \E r \in Reqs :
        /\ pc[r] = "Responded"
        /\ returncode[r] # 0
        /\ firmware_hash[r] \in Ids
        /\ fs[firmware_hash[r]].dir
        /\ response[r] = abort500("Build failed")

\* C3: a build request that ends in a server error (BuildFailed or
\* NoIdentifier) has written no metadata file
C3NoWriteOnFailure ==
    \A r \in Reqs :
        (pc[r] = "Responded" /\ response[r].status = 500) => ~persisted[r]

\* C4: for a name with no artifact directory both the metadata query and
\* the binary query return not-found (404)
C4UnknownIsNotFound ==
    \A n \in Names :
        ~isdir(fs, n)
        => (GetInfo(fs, n).status = 404 /\ Download(fs, n).status = 404)

C4Witness ==
    /\ query.op = "info"
    /\ query.status = 404
    /\ query.name \in Ids
    /\ ~isdir(fs, query.name)
    /\ \E n \in Ids : isfile_config(fs, n) /\ isfile_bin(fs, n)

\* C5 as stated: a directory with a binary but no metadata file is not
\* found by the metadata query nor by the binary query
C5BinaryOnlyIsNotFound ==
    \A n \in Names :
        (isfile_bin(fs, n) /\ ~isfile_config(fs, n))
        => (GetInfo(fs, n).status = 404 /\ Download(fs, n).status = 404)

\* C5 amended: for a directory with a binary but no metadata file the
\* metadata query returns not-found and the binary query returns the binary
C5BinaryOnlyServesBinary ==
    \A n \in Names :
        (isfile_bin(fs, n) /\ ~isfile_config(fs, n))
        => /\ GetInfo(fs, n).status = 404
           /\ Download(fs, n).status = 200
           /\ Download(fs, n).body = fs[n].bin.data

C5Witness ==
    /\ query.op = "bin"
    /\ query.status = 200
    /\ isfile_bin(fs, query.name)
    /\ ~isfile_config(fs, query.name)
    /\ query.body = fs[query.name].bin.data

\* C6: every metadata query served while no metadata write is in progress
\* ends in the metadata response (200) or in not-found (404)
C6MetadataOrNotFound ==
    (\A r \in Reqs : pc[r] # "Opened")
    => \A n \in Names : GetInfo(fs, n).status \in {200, 404}

\* C7: when the metadata query succeeds, its checksum is the hash of, and
\* its size the length of, the bytes the binary query returns in the same
\* store state
C7ChecksumConsistent ==
    \A n \in Names :
        GetInfo(fs, n).status = 200
        => /\ Download(fs, n).status = 200
           /\ GetInfo(fs, n).checksum = sha1(Download(fs, n).body)
           /\ GetInfo(fs, n).size = Len(Download(fs, n).body)

C7Witness ==
    /\ query.op = "info"
    /\ query.status = 200
    /\ query.size = 2
    /\ query = GetInfo(fs, query.name)
    /\ Download(fs, query.name).body = <<1, 2>>

\* C8: serving a metadata query or a binary query leaves the store
\* unchanged, and the same query repeated right away returns the same
\* response
C8RetrievalIdempotent ==
    [][QueryServed =>
          /\ fs' = fs
          /\ query' = IF query'.op = "info"
                      THEN GetInfo(fs', query'.name)
                      ELSE Download(fs', query'.name)]_vars

C8Witness ==
    /\ query.op = "info"
    /\ query.status = 200
    /\ query = GetInfo(fs, query.name)
    /\ \E r \in Reqs :
          /\ persisted[r]
          /\ firmware_hash[r] = query.name
          /\ query.config = json_data[r]
          /\ query.config = CfgB

WritesMetadata(r) ==
    /\ pc[r] \in {"DirFound", "Opened"}
    /\ pc'[r] \in {"Opened", "Persisted"}

C10SuccessDespiteMissingDir ==
    \A r \in Reqs :
        (pc[r] = "Responded" /\ returncode[r] = 0 /\ firmware_hash[r] # <<>>)
        => response[r] = [status |-> 200, hash |-> firmware_hash[r], msg |-> ""]

C10Witness ==
    \E r \in Reqs :
        /\ pc[r] = "Responded"
        /\ returncode[r] = 0
        /\ firmware_hash[r] \in Ids
        /\ ~persisted[r]
        /\ ~isdir(fs, firmware_hash[r])
        /\ response[r].status = 200
        /\ response[r].hash = firmware_hash[r]

\* C11 as stated: the identifier returned to the client is the command's
\* standard output stripped of leading and trailing whitespace, and it is
\* not empty after that
C11IdentifierTrimmed ==
    \A r \in Reqs :
        (pc[r] = "Responded" /\ response[r].status = 200)
        => /\ response[r].hash = strip(firmware_hash[r])
           /\ strip(response[r].hash) # <<>>

\* C11 amended: the identifier returned to the client, which is also the
\* store key of the metadata write, is the command's standard output as
\* written, whitespace included, and it is not empty
C11IdentifierVerbatim ==
    \A r \in Reqs :
        /\ (pc[r] = "Responded" /\ response[r].status = 200)
           => /\ response[r].hash = firmware_hash[r]
              /\ response[r].hash # <<>>
        /\ pc[r] \in {"Opened", "Persisted"}
           => isfile_config(fs, firmware_hash[r])

C11Witness ==
    \E r \in Reqs :
        /\ pc[r] = "Responded"
        /\ response[r].status = 200
        /\ response[r].hash = <<"a", "\n">>
        /\ strip(response[r].hash) = <<"a">>
        /\ isdir(fs, <<"a">>)
        /\ ~persisted[r]

\* C12: a metadata query served while a build request writes the metadata
\* of the same identifier finds no metadata file or the complete serialized
\* config, never an empty or partly written file
C12AtomicMetadata ==
    [][(InfoServed /\ isfile_config(fs, query'.name))
          => /\ fs[query'.name].config.data # <<>>
             /\ json_load(fs[query'.name].config.data).ok]_vars

\* name n is left as it was by this step, and so is what retrieval returns
\* for it
Untouched(n) ==
    /\ fs'[n] = fs[n]
    /\ fs' # fs => /\ GetInfo(fs', n) = GetInfo(fs, n)
                   /\ Download(fs', n) = Download(fs, n)

\* C13: a step of a build request whose command emitted h changes nothing
\* outside ./build/h (and no binary at all), and a step of the command
\* changes nothing outside the directory named after its identifier; the
\* metadata, the binary and the retrieval results of every other name are
\* as before, whatever the other requests are doing
C13Isolation ==
    [][\A r \in Reqs :
          /\ pc'[r] # pc[r]
             => /\ \A n \in Names \ {firmware_hash'[r]} : Untouched(n)
                /\ \A n \in Names : fs'[n].bin = fs[n].bin /\ fs'[n].dir = fs[n].dir
          /\ (pc' = pc /\ proc[r].id \in Ids /\ fs'[proc[r].id] # fs[proc[r].id])
             => \A n \in Names \ {proc[r].id} : Untouched(n)]_vars

C13Witness ==
    \E r1, r2 \in Reqs :
        /\ persisted[r1] /\ persisted[r2]
        /\ firmware_hash[r1] = <<"a">> /\ firmware_hash[r2] = <<"b">>
        /\ json_data[r1] = CfgA /\ json_data[r2] = CfgB
        /\ returncode[r1] = 1 /\ pc[r1] = "Responded"
        /\ GetInfo(fs, <<"a">>).status = 200
        /\ GetInfo(fs, <<"a">>).config = CfgA
        /\ GetInfo(fs, <<"b">>).status = 200
        /\ GetInfo(fs, <<"b">>).config = CfgB

\* C14: no metadata file exists outside an existing artifact directory;
\* every artifact directory is created by a step of the command, never by
\* a step of a request handler; and a handler whose hash names no existing
\* directory leaves the store as it is
C14HandlerNeverCreatesDir ==
    /\ [](\A n \in Names : fs[n].config.exists => fs[n].dir)
    /\ [][\A n \in Names :
             (fs'[n].dir /\ ~fs[n].dir)
             => (pc' = pc /\ \E r \in Reqs : Spawned(r) /\ proc[r].id = n)]_vars
    /\ [][\A r \in Reqs :
             (/\ pc'[r] # pc[r]
              /\ firmware_hash'[r] \in Names
              /\ ~fs[firmware_hash'[r]].dir)
             => fs' = fs]_vars

C14Witness ==
    \E r \in Reqs :
        /\ pc[r] = "DirMissing"
        /\ returncode[r] = 0
        /\ firmware_hash[r] \in Ids
        /\ fs[firmware_hash[r]] = NoDir
        /\ \E n \in Ids : isfile_config(fs, n)

\* C15: a build request whose command emitted empty output is answered
\* with status 500 and no identifier, whatever the exit status, and that
\* status is the one a non-zero exit status gets; such a request writes
\* no metadata
C15EmptyOutputIs500 ==
    \A r \in Reqs :
        (pc[r] \notin {"Idle", "Rendered", "Invoked"} /\ firmware_hash[r] = <<>>)
        => /\ pc[r] = "Responded"
           /\ response[r].status = 500
           /\ response[r].hash = <<>>
           /\ \A h \in Names : response[r].status = BuildResult(h, 1).status
           /\ ~persisted[r]

C15Witness ==
    \E r \in Reqs :
        /\ pc[r] = "Responded"
        /\ proc[r].state = "exited"
        /\ firmware_hash[r] = <<>>
        /\ returncode[r] = 0
        /\ response[r] = abort500("Yeah, this didn't work")

\* C16: within one build request, every step after communicate() finds
\* the process exited and works on the captured output and exit status,
\* which no later step changes; a store write or a response by the handler
\* happens only once the process has exited; a request is answered in
\* state Responded and nowhere else, and its response, once given, changes
\* only when the slot takes the next request
C16Ordering ==
    /\ [](\A r \in Reqs :
            /\ pc[r] \in {"DirFound", "DirMissing", "Opened", "Persisted",
                          "Responded"}
               => proc[r].state = "exited"
            /\ persisted[r] => proc[r].state = "exited"
            /\ (response[r] # NoResponse) <=> (pc[r] = "Responded"))
    /\ [][\A r \in Reqs :
             /\ (pc'[r] # pc[r] /\ fs' # fs) => proc[r].state = "exited"
             /\ pc[r] \in {"DirFound", "DirMissing", "Opened", "Persisted"}
                => /\ firmware_hash'[r] = firmware_hash[r]
                   /\ returncode'[r] = returncode[r]
             /\ response'[r] # response[r]
                => \/ /\ response[r] = NoResponse
                      /\ pc[r] # "Responded"
                      /\ pc'[r] = "Responded"
                      /\ proc'[r].state = "exited"
                   \/ /\ pc[r] \in {"Idle", "Responded"}
                      /\ pc'[r] = "Rendered"
                      /\ response'[r] = NoResponse]_vars

C16Witness ==
    \E r1, r2 \in Reqs :
        /\ pc[r1] = "Responded"
        /\ persisted[r1]
        /\ response[r1].status = 200
        /\ proc[r1].state = "exited"
        /\ pc[r2] = "Invoked"
        /\ proc[r2].state = "running"
        /\ isfile_bin(fs, proc[r2].id)
        /\ ~isfile_config(fs, proc[r2].id)
        /\ response[r2] = NoResponse

\* C17: with every handler thread scheduled fairly, a build request whose
\* process has exited is eventually answered, whatever the other request
\* does (its process may never exit); while its process runs a request
\* waits in communicate() and has no response
C17Termination ==
    /\ \A r \in Reqs : (proc[r].state = "exited") ~> (pc[r] = "Responded")
    /\ [](\A r \in Reqs :
            proc[r].state = "running"
            => (pc[r] = "Invoked" /\ response[r] = NoResponse))

C17Witness ==
    \E r1, r2 \in Reqs :
        /\ pc[r1] = "Invoked"
        /\ proc[r1].state = "running"
        /\ response[r1] = NoResponse
        /\ proc[r2].id = proc[r1].id
        /\ proc[r2].state = "exited"
        /\ pc[r2] = "Responded"
        /\ response[r2].status \in {200, 500}

\* C18: the text a build request sends to the command is: the four
\* defines NUM_LEDS, WAIT_COLOR_MS, WAIT_GRADIENT_MS, GRADIENT_STEPS with
\* the submitted num_leds, wait_color, wait_gradient, gradient_steps; the
\* opening of the color array; one color line per element of `colors`, in
\* the submitted order, with its r, g, b; the closing; and no other line
C18RenderPreservesConfig ==
    \A r \in Reqs :
        pc[r] # "Idle"
        => LET text == out_data[r]
               c == json_data[r]
               n == Len(c.colors)
           IN /\ Len(text) = 6 + n
              /\ text[1] = [kind |-> "define", name |-> "NUM_LEDS",
                            val |-> <<c.num_leds>>]
              /\ text[2] = [kind |-> "define", name |-> "WAIT_COLOR_MS",
                            val |-> <<c.wait_color>>]
              /\ text[3] = [kind |-> "define", name |-> "WAIT_GRADIENT_MS",
                            val |-> <<c.wait_gradient>>]
              /\ text[4] = [kind |-> "define", name |-> "GRADIENT_STEPS",
                            val |-> <<c.gradient_steps>>]
              /\ text[5].kind = "open"
              /\ \A i \in 1..n :
                    /\ text[5 + i].kind = "color"
                    /\ text[5 + i].val[1] = c.colors[i].r
                    /\ text[5 + i].val[2] = c.colors[i].g
                    /\ text[5 + i].val[3] = c.colors[i].b
              /\ text[6 + n].kind = "close"
              /\ Cardinality({i \in 1..Len(text) : text[i].kind = "color"}) = n

C18Witness ==
    \E r1, r2 \in Reqs :
        /\ pc[r1] = "Rendered"
        /\ Len(json_data[r1].colors) = 2
        /\ json_data[r1].colors[1] # json_data[r1].colors[2]
        /\ out_data[r1][6].val = <<255, 0, 0>>
        /\ out_data[r1][7].val = <<1, 2, 3>>
        /\ pc[r2] = "Rendered"
        /\ json_data[r2].colors = <<>>
        /\ Len(out_data[r2]) = 6

\* a step of request r that leaves config.json of name n with content data
WritesConfig(r, n, data) ==
    /\ pc'[r] # pc[r]
    /\ firmware_hash[r] = n
    /\ fs'[n].config.exists
    /\ fs'[n].config.data = data

\* C19: a metadata file holds, from the step that brings it into existence
\* or changes it, the whole config of a build request whose command emitted
\* exactly the name of its directory
C19MetadataProvenance ==
    [][\A n \in Names :
          fs'[n].config # fs[n].config
          => \E r \in Reqs : WritesConfig(r, n, json_dump(json_data[r]))]_vars

\* what holds of C19 in the code: every change of a metadata file is made
\* by a request whose command emitted the name, and leaves either the
\* whole config of that request or, between open() and close(), nothing
C19ProvenanceOrEmpty ==
    [][\A n \in Names :
          fs'[n].config # fs[n].config
          => \E r \in Reqs : \/ WritesConfig(r, n, json_dump(json_data[r]))
                             \/ WritesConfig(r, n, <<>>)]_vars

====
